---- MODULE Spec2Model ----
(***************************************************************************)
(* Boot ROM entry of the "capa A" bootloader                               *)
(* (phase-1-prototype/genome/capa_a_bootloader/bootloader.c).              *)
(*                                                                         *)
(* boot_rom_entry is one sequential flow: puf_init, puf_derive_key,        *)
(* download_genome, ed25519_verify, then execute_stage0 or                 *)
(* enter_safe_mode.  The state is the position of that flow (pc), the      *)
(* stack array device_private_key, the RAM that starts at genome_buffer,   *)
(* and history variables recording the calls made so far.                  *)
(*                                                                         *)
(* Two specifications are given.  Spec is the program exactly as written,  *)
(* with the placeholder bodies of the hardware functions.  SpecHw runs the *)
(* same boot_rom_entry against arbitrary collaborators behind the same C   *)
(* signatures (a PUF that may not be ready, a transport that may deliver   *)
(* fewer or be offered more bytes than the buffer holds, a verification    *)
(* primitive that may answer false); the placeholders are one of the       *)
(* behaviours SpecHw allows.  FairSpec and FairSpecHw add that the         *)
(* sequential flow takes its next step.  SpecReboot runs the program as    *)
(* written again after a reset, and SpecDerive applies puf_derive_key      *)
(* alone to buffers and lengths other than the one boot_rom_entry uses.    *)
(***************************************************************************)
EXTENDS Integers, Sequences, FiniteSets

(* ----------------------------- constants ------------------------------ *)

\* uint8_t holds the values 0 .. 255.
ByteRange == 256

\* #define PRIVATE_KEY_SIZE 32
PRIVATE_KEY_SIZE == 32

\* #define GENOME_MAX_SIZE (128 * 1024), scaled down to a buffer of a few bytes;
\* no step of boot_rom_entry depends on the size beyond the loop bounds.
GENOME_MAX_SIZE == 8

\* Resets after the first boot.
MaxReboots == 1

\* Size of the buffer puf_derive_key is tried on alone; i + 0xAB passes 255
\* from i = 85 on.
MaxKeyBuffer == 88

\* Bytes of RAM modelled after the end of the genome buffer.
Slack == 2

\* Stale RAM content at reset is (a * i + b) % 256 with a in 0 .. MaxStaleStride.
MaxStaleStride == 3

RamSize == GENOME_MAX_SIZE + Slack

RamIndex == 0 .. (RamSize - 1)

KeyIndex == 0 .. (PRIVATE_KEY_SIZE - 1)

\* const uint8_t GENOME_SIGNATURE_KEY[32] = {0};
GENOME_SIGNATURE_KEY == [i \in 0 .. 31 |-> 0]

\* Values the uninitialised memory is drawn from.
StaleBytes == {0, 1, 90, 255}

Min(a, b) == IF a < b THEN a ELSE b

(* --------------------------- hardware functions ----------------------- *)

\* The sum stored without the cast to uint8_t.
puf_derive_key_nocast(key_buffer, buffer_size) ==
    [i \in DOMAIN key_buffer |->
        IF i < buffer_size THEN i + 171 ELSE key_buffer[i]]

\* puf_derive_key: for (i = 0; i < buffer_size; ++i) key_buffer[i] = (uint8_t)(i + 0xAB);
puf_derive_key(key_buffer, buffer_size) ==
    [i \in DOMAIN key_buffer |->
        IF i < buffer_size THEN (i + 171) % ByteRange ELSE key_buffer[i]]

\* download_genome: for (i = 0; i < buffer_size; ++i) genome_buffer[i] = (uint8_t)(i % 256);
\* mem is the RAM from the address genome_buffer on.
download_genome(mem, buffer_size) ==
    [i \in DOMAIN mem |->
        IF i < buffer_size THEN i % ByteRange ELSE mem[i]]

\* A check that looks at the data: it accepts the all-zero payload only.
ed25519_verify_zero_only(data, data_size, signature_key) ==
    \A i \in 0 .. (data_size - 1) : data[i] = signature_key[0]

\* A check that reads one byte more than data_size.
ed25519_verify_overread(data, data_size, signature_key) == data[data_size] = 0

\* ed25519_verify: return true;
ed25519_verify(data, data_size, signature_key) == TRUE

VARIABLES
    pc,                  \* position of boot_rom_entry
    device_private_key,  \* uint8_t device_private_key[PRIVATE_KEY_SIZE] (stack)
    ram,                 \* RAM from genome_buffer = 0x20000000 on
    ram_at_reset,        \* history: the RAM as it was at reset
    calls,               \* history: the calls made, in order
    acquired,            \* history: bytes download_genome wrote in this boot
    puf_ready,           \* hardware: whether the PUF was ready at puf_init
    offered,             \* hardware: bytes the transport had to offer
    outcomes             \* history: how the earlier boots of this device ended

vars ==
    <<pc, device_private_key, ram, ram_at_reset, calls, acquired, puf_ready, offered,
      outcomes>>

Call(fn, size, ret) == [fn |-> fn, size |-> size, ret |-> ret]

\* State at reset: RAM and stack hold whatever was left there.
Init ==
    /\ pc = "Init"
    /\ \E g \in StaleBytes : device_private_key = [i \in KeyIndex |-> g]
    /\ \E a \in 0 .. MaxStaleStride, b \in StaleBytes :
          ram = [i \in RamIndex |-> (a * i + b) % ByteRange]
    /\ ram_at_reset = ram
    /\ calls = <<>>
    /\ acquired = 0
    /\ puf_ready = FALSE
    /\ offered = 0
    /\ outcomes = <<>>

(* ------------------------------ boot_rom_entry ------------------------ *)

\* line 70: puf_init();  it returns nothing, whatever the hardware did.
PufInitStep(ready) ==
    /\ pc = "Init"
    /\ pc' = "PufInitialized"
    /\ puf_ready' = ready
    /\ calls' = Append(calls, Call("puf_init", 0, ready))
    /\ UNCHANGED <<device_private_key, ram, ram_at_reset, acquired, offered, outcomes>>

\* lines 71-72: puf_derive_key(device_private_key, sizeof(device_private_key));
PufDeriveKey ==
    /\ pc = "PufInitialized"
    /\ pc' = "KeyDerived"
    /\ device_private_key' = puf_derive_key(device_private_key, PRIVATE_KEY_SIZE)
    /\ calls' = Append(calls, Call("puf_derive_key", PRIVATE_KEY_SIZE, TRUE))
    /\ UNCHANGED <<ram, ram_at_reset, acquired, puf_ready, offered, outcomes>>

\* The download moved up before the key derivation.
DownloadStepEarly(filled, n, len) ==
    /\ pc = "PufInitialized"
    /\ pc' = "PayloadAcquired"
    /\ ram' = filled
    /\ acquired' = n
    /\ offered' = len
    /\ calls' = Append(calls, Call("download_genome", GENOME_MAX_SIZE, TRUE))
    /\ UNCHANGED <<device_private_key, ram_at_reset, puf_ready, outcomes>>

\* lines 75-76: download_genome(genome_buffer, GENOME_MAX_SIZE);
\* filled is the RAM after the call, n the bytes written, len the bytes on offer.
DownloadStep(filled, n, len) ==
    /\ pc = "KeyDerived"
    /\ pc' = "PayloadAcquired"
    /\ ram' = filled
    /\ acquired' = n
    /\ offered' = len
    /\ calls' = Append(calls, Call("download_genome", GENOME_MAX_SIZE, TRUE))
    /\ UNCHANGED <<device_private_key, ram_at_reset, puf_ready, outcomes>>

\* The branch with its condition negated: if (!ed25519_verify(...)).
VerdictBranchNegated(verdict) == IF verdict THEN "SafeMode" ELSE "Verified"

\* The branch with the else part lost: stage 0 runs whatever the verdict.
VerdictBranchIgnored(verdict) == "Verified"

\* The branch with the call of enter_safe_mode lost: on a false verdict
\* boot_rom_entry falls through to its end.
VerdictBranchNoSafeMode(verdict) == IF verdict THEN "Verified" ELSE "Returned"

\* lines 79-85: the branch of if (ed25519_verify(...)) { ... } else { ... }
VerdictBranch(verdict) == IF verdict THEN "Verified" ELSE "SafeMode"

\* The primitive called a second time for the branch.
VerifyStepTwice(verdict) ==
    /\ pc = "PayloadAcquired"
    /\ pc' = VerdictBranch(verdict)
    /\ calls' = Append(Append(calls, Call("ed25519_verify", GENOME_MAX_SIZE, verdict)),
                       Call("ed25519_verify", GENOME_MAX_SIZE, verdict))
    /\ UNCHANGED <<device_private_key, ram, ram_at_reset, acquired, puf_ready, offered, outcomes>>

\* line 79: if (ed25519_verify(genome_buffer, GENOME_MAX_SIZE, GENOME_SIGNATURE_KEY));
\* the else branch (line 84) calls enter_safe_mode, whose while(1); never
\* changes the state again.
VerifyStep(verdict) ==
    /\ pc = "PayloadAcquired"
    /\ pc' = VerdictBranch(verdict)
    /\ calls' = Append(calls, Call("ed25519_verify", GENOME_MAX_SIZE, verdict))
    /\ UNCHANGED <<device_private_key, ram, ram_at_reset, acquired, puf_ready, offered, outcomes>>

\* The genome fetched again between its verification and its execution.
ExecuteStage0Reload ==
    /\ pc = "Verified"
    /\ pc' = "Executing"
    /\ ram' = download_genome(ram, GENOME_MAX_SIZE)
    /\ calls' = Append(calls, Call("execute_stage0", 0, TRUE))
    /\ UNCHANGED <<device_private_key, ram_at_reset, acquired, puf_ready, offered, outcomes>>

\* line 81: execute_stage0(genome_buffer);
ExecuteStage0 ==
    /\ pc = "Verified"
    /\ pc' = "Executing"
    /\ calls' = Append(calls, Call("execute_stage0", 0, TRUE))
    /\ UNCHANGED <<device_private_key, ram, ram_at_reset, acquired, puf_ready, offered, outcomes>>

\* lines 37-40 and 86: execute_stage0 has an empty body and returns, and
\* boot_rom_entry returns after it.
Stage0Returns ==
    /\ pc = "Executing"
    /\ pc' = "Returned"
    /\ UNCHANGED <<device_private_key, ram, ram_at_reset, calls, acquired, puf_ready, offered, outcomes>>

\* enter_safe_mode with the loop lost: it returns, and boot_rom_entry after it.
enter_safe_mode_returns(at) == "Returned"

\* lines 43-46: enter_safe_mode is while(1); the flow stays where it is.
enter_safe_mode(at) == at

\* One turn of the loop of enter_safe_mode; it changes nothing.
SafeModeLoop ==
    /\ pc = "SafeMode"
    /\ pc' = enter_safe_mode(pc)
    /\ UNCHANGED <<device_private_key, ram, ram_at_reset, calls, acquired, puf_ready, offered, outcomes>>

(* ------------------------ the program as written ---------------------- *)

\* SafeModeLoop is left out of Next: it changes no variable, so Spec allows it
\* as a stuttering step, and as written no run reaches the loop.

PufInit == PufInitStep(TRUE)

DownloadGenome ==
    DownloadStep(download_genome(ram, GENOME_MAX_SIZE), GENOME_MAX_SIZE, GENOME_MAX_SIZE)

\* The device key passed where the signature key belongs (both are 32 bytes).
VerifyArgsDeviceKey(secret, mem) == <<mem, GENOME_MAX_SIZE, secret>>

\* line 79: the arguments boot_rom_entry gives ed25519_verify when its stack
\* holds secret in device_private_key and the RAM is mem.
VerifyArgs(secret, mem) == <<mem, GENOME_MAX_SIZE, GENOME_SIGNATURE_KEY>>

VerifyGenome ==
    LET args == VerifyArgs(device_private_key, ram)
    IN  VerifyStep(ed25519_verify(args[1], args[2], args[3]))

Next ==
    \/ PufInit
    \/ PufDeriveKey
    \/ DownloadGenome
    \/ VerifyGenome
    \/ ExecuteStage0
    \/ Stage0Returns

Spec == Init /\ [][Next]_vars

\* The flow is sequential code on one core: an enabled step is taken.
FairSpec == Spec /\ WF_vars(Next)

(* ---------------------- the program run again ------------------------- *)

\* The SoC is reset after a boot has ended and boot_rom_entry runs again.  The
\* stack and the RAM are as the boot left them (a warm reset) or hold whatever
\* the power cycle left in them.
Reboot ==
    /\ pc \in {"Returned", "SafeMode"}
    /\ Len(outcomes) < MaxReboots
    /\ outcomes' = Append(outcomes, IF pc = "SafeMode" THEN "SafeMode" ELSE "Executing")
    /\ pc' = "Init"
    /\ \E g \in StaleBytes :
          device_private_key' \in {device_private_key, [i \in KeyIndex |-> g]}
    /\ \E a \in 0 .. MaxStaleStride, b \in StaleBytes :
          ram' \in {ram, [i \in RamIndex |-> (a * i + b) % ByteRange]}
    /\ ram_at_reset' = ram'
    /\ calls' = <<>>
    /\ acquired' = 0
    /\ puf_ready' = FALSE
    /\ offered' = 0

NextReboot == Next \/ Reboot

SpecReboot == Init /\ [][NextReboot]_vars

(* ------------------------ puf_derive_key alone ------------------------ *)

\* Lengths puf_derive_key is called with.
KeyLengths == {0, 1, PRIVATE_KEY_SIZE, 85, 86, MaxKeyBuffer - 1, MaxKeyBuffer}

\* A buffer of MaxKeyBuffer stale bytes, nothing called yet.
InitDerive ==
    /\ pc = "Deriving"
    /\ \E g \in StaleBytes : device_private_key = [i \in 0 .. (MaxKeyBuffer - 1) |-> g]
    /\ ram = [i \in RamIndex |-> 0]
    /\ ram_at_reset = ram
    /\ calls = <<>>
    /\ acquired = 0
    /\ puf_ready = TRUE
    /\ offered = 0
    /\ outcomes = <<>>

\* puf_derive_key(key_buffer, n) on the buffer, at most twice.
DeriveKeyOfLength ==
    \E n \in KeyLengths :
        /\ pc = "Deriving"
        /\ Len(calls) < 2
        /\ device_private_key' = puf_derive_key(device_private_key, n)
        /\ calls' = Append(calls, Call("puf_derive_key", n, TRUE))
        /\ UNCHANGED <<pc, ram, ram_at_reset, acquired, puf_ready, offered, outcomes>>

SpecDerive == InitDerive /\ [][DeriveKeyOfLength]_vars

(* ------------- boot_rom_entry against arbitrary collaborators --------- *)

\* Lengths the transport may have on offer: nothing, short deliveries, the
\* exact capacity, and more than the buffer holds.
OfferedLengths ==
    {0, 1, GENOME_MAX_SIZE \div 2, GENOME_MAX_SIZE - 1, GENOME_MAX_SIZE,
     GENOME_MAX_SIZE + 1, GENOME_MAX_SIZE + Slack}

\* Payloads the transport may carry: byte i is (m * i + c) % 256.  <<1, 0>> is
\* the example data of the placeholder, <<0, 0>> a zero-filled payload.
PayloadPatterns == {<<1, 0>>, <<0, 0>>, <<3, 7>>}

\* download_genome with a transport behind it: the loop of lines 24-26 stops at
\* buffer_size, and earlier when the transport has only len bytes.
download_from(mem, buffer_size, len, pattern) ==
    [i \in DOMAIN mem |->
        IF i < Min(len, buffer_size)
        THEN (pattern[1] * i + pattern[2]) % ByteRange
        ELSE mem[i]]

\* The PUF may or may not be ready; puf_init returns void either way.
PufInitHw == \E ready \in BOOLEAN : PufInitStep(ready)

DownloadGenomeHw ==
    \E len \in OfferedLengths, pattern \in PayloadPatterns :
        DownloadStep(download_from(ram, GENOME_MAX_SIZE, len, pattern),
                     Min(len, GENOME_MAX_SIZE), len)

\* The verification primitive answers true or false.
VerifyGenomeHw == \E verdict \in BOOLEAN : VerifyStep(verdict)

NextHw ==
    \/ PufInitHw
    \/ PufDeriveKey
    \/ DownloadGenomeHw
    \/ VerifyGenomeHw
    \/ ExecuteStage0
    \/ Stage0Returns
    \/ SafeModeLoop

SpecHw == Init /\ [][NextHw]_vars

\* The flow is sequential code on one core: an enabled step is taken.
FairSpecHw == SpecHw /\ WF_vars(NextHw)

(* ------------------------------ history ------------------------------- *)

Called(fn) == \E k \in DOMAIN calls : calls[k].fn = fn

\* The verification primitive has answered v in this boot.
VerdictIs(v) ==
    \E k \in DOMAIN calls : calls[k].fn = "ed25519_verify" /\ calls[k].ret = v

\* Indices of the genome buffer.
GenomeIndex == 0 .. (GENOME_MAX_SIZE - 1)

\* The RAM with the byte at index i changed to another value.
FlipByte(mem, i) == [mem EXCEPT ![i] = (mem[i] + 1) % ByteRange]

\* The bytes puf_derive_key leaves in a 32-byte buffer.
DeviceSecret == puf_derive_key([i \in KeyIndex |-> 0], PRIVATE_KEY_SIZE)

\* The positions before a terminal state is reached.
NonTerminal == {"Init", "PufInitialized", "KeyDerived", "PayloadAcquired", "Verified"}

(* -------------------------------- claims ------------------------------ *)

\* C1: whenever the verification primitive has answered true, the boot is
\* never in SafeMode, and it goes on to invoke execute_stage0 on the genome
\* buffer (Executing is reached).
C1_AuthenticReachesExecuting ==
    /\ [](VerdictIs(TRUE) => pc # "SafeMode" /\ ~VerdictIs(FALSE))
    /\ (VerdictIs(TRUE) ~> Called("execute_stage0"))
    /\ [][Called("execute_stage0")' /\ ~Called("execute_stage0") => pc' = "Executing"]_vars

C1_Witness ==
    /\ VerdictIs(TRUE)
    /\ pc = "Executing"
    /\ calls[Len(calls)].fn = "execute_stage0"

\* C2: whenever the verification primitive has answered false, the boot is in
\* SafeMode (the else branch called enter_safe_mode) and execute_stage0 has not
\* been and is not being invoked.
C2_InauthenticReachesSafeMode ==
    VerdictIs(FALSE) =>
        /\ pc = "SafeMode"
        /\ ~Called("execute_stage0")

C2_Witness ==
    /\ VerdictIs(FALSE)
    /\ pc = "SafeMode"
    /\ acquired = GENOME_MAX_SIZE

\* C3: execute_stage0 is invoked only directly after ed25519_verify returned
\* true in this boot; in Init, PufInitialized, KeyDerived, PayloadAcquired and
\* SafeMode it has not been invoked, and Verified is entered only on a true
\* verdict.
C3_ExecuteOnlyIfVerified ==
    /\ \A k \in DOMAIN calls :
          calls[k].fn = "execute_stage0" =>
              /\ k > 1
              /\ calls[k - 1].fn = "ed25519_verify"
              /\ calls[k - 1].ret = TRUE
    /\ pc \in {"Verified", "Executing", "Returned"} => VerdictIs(TRUE)
    /\ pc \in {"Init", "PufInitialized", "KeyDerived", "PayloadAcquired", "SafeMode"}
          => ~Called("execute_stage0")

C3_Witness ==
    /\ Called("execute_stage0")
    /\ pc = "Returned"
    /\ VerdictIs(TRUE)

\* C4: when the payload in the genome buffer is accepted, the same payload
\* with any one byte changed is not: its verdict is false and the branch
\* taken on it is the one into SafeMode.
C4_TamperedPayloadRejected ==
    pc = "PayloadAcquired" =>
        \A i \in GenomeIndex :
            ed25519_verify(ram, GENOME_MAX_SIZE, GENOME_SIGNATURE_KEY) =>
                /\ ~ed25519_verify(FlipByte(ram, i), GENOME_MAX_SIZE, GENOME_SIGNATURE_KEY)
                /\ VerdictBranch(ed25519_verify(FlipByte(ram, i), GENOME_MAX_SIZE,
                                                GENOME_SIGNATURE_KEY)) = "SafeMode"

\* C5: after an acquisition that wrote fewer bytes than the GENOME_MAX_SIZE
\* asked for, ed25519_verify is never called and the boot does not go on to
\* Verified or Executing.
C5_TruncatedNeverVerified ==
    (Called("download_genome") /\ acquired < GENOME_MAX_SIZE) =>
        /\ ~Called("ed25519_verify")
        /\ pc \in {"PayloadAcquired", "SafeMode"}

\* C6: when the transport had more than GENOME_MAX_SIZE bytes on offer, the
\* RAM from index GENOME_MAX_SIZE on is as it was at reset and the boot does
\* not go on to Verified or Executing.
C6_OversizeRoutesToSafeMode ==
    offered > GENOME_MAX_SIZE =>
        /\ \A i \in RamIndex : i >= GENOME_MAX_SIZE => ram[i] = ram_at_reset[i]
        /\ pc \in {"PayloadAcquired", "SafeMode"}

\* C7: the genome buffer is all zero when download_genome is about to be
\* called, and after the call every byte of the buffer that the call did not
\* write is zero.
C7_BufferZeroedBeforeAcquisition ==
    /\ pc = "KeyDerived" => \A i \in GenomeIndex : ram[i] = 0
    /\ Called("download_genome") =>
          \A i \in GenomeIndex : i >= acquired => ram[i] = 0

\* C8: every call of ed25519_verify is given as data_size the number of bytes
\* download_genome wrote in this boot.
C8_VerifiedLengthIsAcquiredLength ==
    \A k \in DOMAIN calls :
        calls[k].fn = "ed25519_verify" => calls[k].size = acquired

\* C9: key derivation starts only after an initialization attempt found the
\* PUF ready; while every attempt so far found it not ready, the boot is
\* still initializing or in SafeMode.
C9_InitRetriedThenSafeMode ==
    /\ Called("puf_derive_key") =>
          \E k \in DOMAIN calls : calls[k].fn = "puf_init" /\ calls[k].ret = TRUE
    /\ (Called("puf_init") /\ ~puf_ready) => pc \in {"PufInitialized", "SafeMode"}

\* C10: when execute_stage0 is invoked, device_private_key no longer holds
\* the derived secret.
C10_SecretWipedBeforeHandoff ==
    pc = "Executing" => device_private_key # DeviceSecret

\* C11: SafeMode is terminal: in SafeMode execute_stage0 has not been invoked,
\* and a step taken in SafeMode leaves the boot in SafeMode and changes
\* neither the memory nor the calls made.
C11_SafeModeTerminal ==
    /\ [](pc = "SafeMode" => ~Called("execute_stage0"))
    /\ [][pc = "SafeMode" =>
            /\ pc' = "SafeMode"
            /\ UNCHANGED <<device_private_key, ram, calls>>]_vars

C11_Witness ==
    /\ pc = "SafeMode"
    /\ calls[Len(calls)] = Call("ed25519_verify", GENOME_MAX_SIZE, FALSE)

\* C12: Executing is terminal: a step taken once execute_stage0 has been
\* invoked leaves the boot in Executing.
C12_ExecutingTerminal ==
    [][pc = "Executing" => pc' = "Executing"]_vars

\* The state the specification's machine gives after position at, the last
\* collaborator having returned ret.
C13_Successor(at, ret) ==
    CASE at = "Init" -> "PufInitialized"
      [] at = "PufInitialized" -> "KeyDerived"
      [] at = "KeyDerived" -> "PayloadAcquired"
      [] at = "PayloadAcquired" -> (IF ret THEN "Verified" ELSE "SafeMode")
      [] at = "Verified" -> "Executing"

\* C13: every boot reaches Executing or SafeMode, never both; in every
\* position before that a step is possible, and the position it leads to is
\* fixed by the position it starts from and, after verification, by the
\* verdict alone.
C13_TotalAndTerminating ==
    /\ <>(pc \in {"Executing", "SafeMode"})
    /\ [](~(Called("execute_stage0") /\ (pc = "SafeMode" \/ VerdictIs(FALSE))))
    /\ [](pc \in NonTerminal => ENABLED <<NextHw>>_vars)
    /\ [][(pc \in NonTerminal) =>
            pc' = C13_Successor(pc, calls'[Len(calls')].ret)]_vars

C13_Witness ==
    /\ pc = "Executing"
    /\ ~puf_ready
    /\ acquired < GENOME_MAX_SIZE

\* C14: the RAM is written only by the step that calls download_genome, and
\* that step comes before ed25519_verify is called; from the verification on
\* the RAM, and so the genome buffer handed to execute_stage0, stays as it is.
C14_SingleWriterBeforeReader ==
    /\ [][ram' # ram =>
            /\ pc = "KeyDerived"
            /\ calls'[Len(calls')].fn = "download_genome"
            /\ ~Called("ed25519_verify")]_vars
    /\ [][Called("ed25519_verify") => ram' = ram]_vars

C14_Witness ==
    /\ pc = "Executing"
    /\ VerdictIs(TRUE)
    /\ ram # ram_at_reset

\* The order of the steps in the documentation of boot_rom_entry.
C15_BootOrder ==
    <<"puf_init", "puf_derive_key", "download_genome", "ed25519_verify", "execute_stage0">>

\* Calls made when the boot is at position at.
C15_CallsAt(at) ==
    CASE at = "Init" -> 0
      [] at = "PufInitialized" -> 1
      [] at = "KeyDerived" -> 2
      [] at = "PayloadAcquired" -> 3
      [] at \in {"Verified", "SafeMode"} -> 4
      [] at \in {"Executing", "Returned"} -> 5

\* C15: the calls made so far are the first steps of the fixed order
\* puf_init, puf_derive_key, download_genome, ed25519_verify, execute_stage0,
\* each made once and as many as the position of the boot says; in SafeMode
\* the fifth step is the safe mode and execute_stage0 has not been called.
C15_FixedOrder ==
    /\ Len(calls) = C15_CallsAt(pc)
    /\ \A k \in DOMAIN calls : calls[k].fn = C15_BootOrder[k]
    /\ pc = "SafeMode" => ~Called("execute_stage0")

C15_Witness ==
    /\ pc = "Returned"
    /\ Len(calls) = 5
    /\ calls[3].fn = "download_genome"

\* The calls of ed25519_verify made in this boot.
C16_VerifyCalls == {k \in DOMAIN calls : calls[k].fn = "ed25519_verify"}

\* C16: ed25519_verify is called at most once in a boot, and exactly once in
\* every boot that reaches PayloadAcquired; the boot is past the branch into
\* execution exactly when that call returned true, and in SafeMode exactly
\* when it returned false.
C16_VerdictOnce ==
    /\ [](Cardinality(C16_VerifyCalls) <= 1)
    /\ [](pc \in {"Verified", "Executing", "Returned"} <=> VerdictIs(TRUE))
    /\ [](pc = "SafeMode" <=> VerdictIs(FALSE))
    /\ (pc = "PayloadAcquired" ~> Cardinality(C16_VerifyCalls) = 1)

C16_Witness ==
    /\ Cardinality(C16_VerifyCalls) = 1
    /\ pc = "Verified"
    /\ calls[4].ret = TRUE

\* C17: every earlier boot of the same device, which derived the same key and
\* downloaded the same bytes, ended in the terminal state this boot ends in.
C17_SameTerminalState ==
    pc \in {"Executing", "Returned", "SafeMode"} =>
        \A k \in DOMAIN outcomes :
            outcomes[k] = (IF pc = "SafeMode" THEN "SafeMode" ELSE "Executing")

C17_Witness ==
    /\ Len(outcomes) = MaxReboots
    /\ pc = "Executing"
    /\ ram_at_reset[GENOME_MAX_SIZE] # 0

\* Other bytes puf_derive_key could have returned on another device.
C18_OtherSecrets == {[i \in KeyIndex |-> (i + c) % ByteRange] : c \in {0, 172, 255}}

\* C18: when ed25519_verify is about to be called, the arguments it is given,
\* the verdict it returns and the branch taken are the same as they would be
\* with any other bytes in device_private_key.
C18_SecretDoesNotInfluenceVerdict ==
    pc = "PayloadAcquired" =>
        \A other \in C18_OtherSecrets :
            LET mine == VerifyArgs(device_private_key, ram)
                theirs == VerifyArgs(other, ram)
            IN  /\ theirs = mine
                /\ ed25519_verify(theirs[1], theirs[2], theirs[3])
                      = ed25519_verify(mine[1], mine[2], mine[3])
                /\ VerdictBranch(ed25519_verify(theirs[1], theirs[2], theirs[3]))
                      = VerdictBranch(ed25519_verify(mine[1], mine[2], mine[3]))

C18_Witness ==
    /\ pc = "PayloadAcquired"
    /\ device_private_key = DeviceSecret
    /\ \A other \in C18_OtherSecrets : other # device_private_key

\* C19: a call puf_derive_key(key_buffer, n) sets key_buffer[i] to
\* (i + 0xAB) mod 256 for every i < n and leaves every byte at an index >= n
\* as it was; after a second derivation of the same length the buffer is what
\* it was after the first.
C19_DeriveExactAndDeterministic ==
    /\ [][calls' # calls =>
            LET n == calls'[Len(calls')].size
            IN  \A i \in DOMAIN device_private_key :
                    device_private_key'[i] =
                        IF i < n THEN (i + 171) % 256 ELSE device_private_key[i]]_vars
    /\ [][(Len(calls) = 1 /\ Len(calls') = 2 /\ calls'[2] = calls[1]) =>
            device_private_key' = device_private_key]_vars

C19_Witness ==
    /\ Len(calls) = 2
    /\ calls[1].size = 86
    /\ calls[2].size = 86
    /\ device_private_key[85] = 0
    /\ device_private_key[86] \in StaleBytes

\* C20: in the program as written no boot is ever in SafeMode and no verdict
\* is false: once ed25519_verify has been called the boot is in the branch of
\* execute_stage0, which every boot goes on to invoke; and the verdict on the
\* downloaded buffer would be true with any one of its bytes changed.
C20_SafeModeUnreachable ==
    /\ [](pc # "SafeMode" /\ ~VerdictIs(FALSE))
    /\ [](Called("ed25519_verify") => pc \in {"Verified", "Executing", "Returned"})
    /\ [](pc = "PayloadAcquired" =>
            \A i \in GenomeIndex :
                VerdictBranch(ed25519_verify(FlipByte(ram, i), GENOME_MAX_SIZE,
                                             GENOME_SIGNATURE_KEY)) = "Verified")
    /\ <>Called("execute_stage0")

C20_Witness ==
    /\ pc = "Executing"
    /\ \A i \in GenomeIndex : ram[i] = i % 256
    /\ outcomes = <<>>
    /\ offered = GENOME_MAX_SIZE

====
